---- MODULE Spec2Model ----
(***************************************************************************)
(* Offline exam-integrity analysis (src/src/offline_processor.py).         *)
(*                                                                         *)
(* OfflineExamAnalyzer.analyze_video replays a video, keeps every          *)
(* FRAME_STRIDE-th raw frame, runs the enabled detectors on it, feeds the  *)
(* signals to _generate_alerts (three debounce counters that live on the   *)
(* analyzer instance), then analyses the audio once and persists the       *)
(* session record with its verdict.                                        *)
(*                                                                         *)
(* Scores are scaled by 100 (0.7 is 70).  Detectors, cv2 and the scoring   *)
(* functions are external: their results are inputs, and every call that   *)
(* can raise is given the outcome "raises".                                *)
(*                                                                         *)
(* Three specifications: SpecAlerts feeds _generate_alerts directly, Spec  *)
(* makes analyze_video calls on one analyzer, SpecRecording makes them     *)
(* through analyze_recording, which constructs an analyzer per call.       *)
(***************************************************************************)
EXTENDS Integers, Sequences, FiniteSets

(* ----------------------------- constants ------------------------------ *)
FRAME_STRIDE == 5
OBJ_DETECT_EVERY == 10
MF_DETECT_EVERY == 4

GAZE_THRESHOLD == 3
MOUTH_THRESHOLD == 3
MULTI_FACE_THRESHOLD == 5

SCORE_THRESHOLD == 70
ALERT_COUNT_THRESHOLD == 5

(* ------------------------------- bounds ------------------------------- *)
\* raw frames of the longest video
MaxFrames == 21
\* analyze_video calls made on the one analyzer instance
MaxSessions == 2
\* largest face count the multi-face detector reports
MaxFaces == 3
\* longest list the object detector reports
MaxObjects == 2
\* longest run of a true signal fed to _generate_alerts directly, in thresholds
MaxRuns == 2

(* ------------------------------ variables ----------------------------- *)
VARIABLES
    cfg,                  \* self.cfg: which detectors / audio are enabled
    gaze_away_frames,     \* self._gaze_away_frames
    mouth_moving_frames,  \* self._mouth_moving_frames
    multi_face_frames,    \* self._multi_face_frames
    evidence_dirs,        \* session ids that have an evidence directory
    session_logs,         \* session ids that have a session record file
    record,               \* the record this call's _save_session_log wrote
    pc,                   \* position of the analyze_video call
    error,                \* the exception that left analyze_video, if any
    session_id,           \* session id of the call
    audio_path,           \* TRUE when an audio path was supplied
    num_raw_frames,       \* raw frames the video turned out to hold, once exhausted
    opened,               \* cap.isOpened() of this call
    cap_open,             \* the VideoCapture is open and not released
    frame_idx,
    processed_idx,
    last_faces,
    last_multi,
    last_objects,
    alerts,               \* the call's alert list
    audio_summary,
    audio_calls,          \* invocations of the audio analyzer in this call
    overall_score,        \* overall score computed by _save_session_log
    sessions,             \* analyze_video calls started so far
    submitted,            \* raw frame indices handed to _generate_alerts
    emitted,              \* the list the last _generate_alerts call returned
    returned,             \* the last _generate_alerts call returned (did not raise)
    fed,                  \* the signals of the last _generate_alerts call
    run,                  \* per signal: consecutive true values fed so far
    fired,                \* per signal: alerts emitted during the current run
    faulted,              \* an evidence write has raised on this analyzer
    det_objects,          \* the list computed when the object detector last ran
    det_faces,            \* the face count computed when the multi-face detector last ran
    mf_invoked,           \* processed indices on which the multi-face detector was invoked
    ref                   \* the same frames fed to an analyzer constructed for this call

vars == <<cfg, gaze_away_frames, mouth_moving_frames, multi_face_frames,
          evidence_dirs, session_logs, record, pc, error, session_id, audio_path,
          num_raw_frames, opened, cap_open, frame_idx, processed_idx,
          last_faces, last_multi, last_objects, alerts, audio_summary,
          audio_calls, overall_score, sessions, submitted, emitted, returned,
          fed, run, fired, faulted, det_objects, det_faces, mf_invoked, ref>>

counters == <<gaze_away_frames, mouth_moving_frames, multi_face_frames>>

(* ------------------------------ data model ---------------------------- *)
NoDetails == {}

\* AlertEvent without its timestamp (frame_idx / fps, never read back)
AlertEvent(sid, fidx, type, severity, image_path, details) ==
    [session_id |-> sid, frame_index |-> fidx, type |-> type,
     severity |-> severity, image_path |-> image_path, details |-> details]

\* an object record as the object detector returns it
Phone == {<<"label", 1>>}

ObjectLists == {<<>>} \cup UNION {[1..n -> {Phone}] : n \in 1..MaxObjects}

GazeDirections == {"center", "left"}

Signals == {"gaze", "mouth", "multi"}

AlertType(signal) ==
    CASE signal = "gaze" -> "GAZE_AWAY"
      [] signal = "mouth" -> "MOUTH_MOVEMENT"
      [] signal = "multi" -> "MULTI_FACE"

Threshold(signal) ==
    CASE signal = "gaze" -> GAZE_THRESHOLD
      [] signal = "mouth" -> MOUTH_THRESHOLD
      [] signal = "multi" -> MULTI_FACE_THRESHOLD

(* --------------------------- _generate_alerts ------------------------- *)
\* save_evidence: the path is the tag and the raw frame index under the
\* session's evidence directory
EvidencePath(sid, tag, fidx) == <<sid, tag, fidx>>

\* One alerts.append(AlertEvent(..., save_evidence(tag), ...)).  st carries
\* the list built so far and the number of evidence writes made; the write
\* numbered failAt raises and leaves _generate_alerts at once.  A write that
\* only reports failure (cv2.imwrite returning False) is not looked at by the
\* code and changes nothing.
AppendWithEvidence(st, sid, fidx, type, severity, tag, details, failAt) ==
    IF st.writes + 1 = failAt
    THEN [st EXCEPT !.raised = TRUE, !.writes = @ + 1]
    ELSE [st EXCEPT !.writes = @ + 1,
                    !.alerts = Append(@, AlertEvent(sid, fidx, type, severity,
                                          EvidencePath(sid, tag, fidx), details))]

\* variant: a counter that a false signal does not reset
CountNoReset(count, signal) == count + 1

\* "if signal: counter += 1 else: counter = 0"
Count(count, signal) == IF signal THEN count + 1 ELSE 0

\* variant: the comparison made strict
ReachedStrict(count, threshold) == count > threshold

\* "if counter >= threshold"
Reached(count, threshold) == count >= threshold

\* lines 204-208
FaceStage(st, sid, fidx, face_present, failAt) ==
    IF st.raised \/ face_present THEN st
    ELSE AppendWithEvidence(st, sid, fidx, "FACE_MISSING", "medium",
                            "face_missing", NoDetails, failAt)

\* lines 210-220
GazeStage(st, sid, fidx, gaze_direction, failAt) ==
    IF st.raised THEN st
    ELSE LET c == Count(st.gaze, gaze_direction # "center")
             s1 == [st EXCEPT !.gaze = c]
         IN IF Reached(c, GAZE_THRESHOLD)
            THEN LET s2 == AppendWithEvidence(s1, sid, fidx, "GAZE_AWAY", "medium",
                                              "gaze_away", NoDetails, failAt)
                 IN IF s2.raised THEN s2 ELSE [s2 EXCEPT !.gaze = 0]
            ELSE s1

\* lines 222-232
MouthStage(st, sid, fidx, mouth_moving, failAt) ==
    IF st.raised THEN st
    ELSE LET c == Count(st.mouth, mouth_moving)
             s1 == [st EXCEPT !.mouth = c]
         IN IF Reached(c, MOUTH_THRESHOLD)
            THEN LET s2 == AppendWithEvidence(s1, sid, fidx, "MOUTH_MOVEMENT", "medium",
                                              "mouth", NoDetails, failAt)
                 IN IF s2.raised THEN s2 ELSE [s2 EXCEPT !.mouth = 0]
            ELSE s1

\* variant: the alert carries the counter, not the face count
MultiFaceStageCounter(st, sid, fidx, multiple_faces, num_faces, failAt) ==
    IF st.raised THEN st
    ELSE LET c == Count(st.multi, multiple_faces)
             s1 == [st EXCEPT !.multi = c]
         IN IF Reached(c, MULTI_FACE_THRESHOLD)
            THEN LET s2 == AppendWithEvidence(s1, sid, fidx, "MULTI_FACE", "high",
                                              "multi_face", {<<"num_faces", c>>},
                                              failAt)
                 IN IF s2.raised THEN s2 ELSE [s2 EXCEPT !.multi = 0]
            ELSE s1

\* lines 234-244
MultiFaceStage(st, sid, fidx, multiple_faces, num_faces, failAt) ==
    IF st.raised THEN st
    ELSE LET c == Count(st.multi, multiple_faces)
             s1 == [st EXCEPT !.multi = c]
         IN IF Reached(c, MULTI_FACE_THRESHOLD)
            THEN LET s2 == AppendWithEvidence(s1, sid, fidx, "MULTI_FACE", "high",
                                              "multi_face", {<<"num_faces", num_faces>>},
                                              failAt)
                 IN IF s2.raised THEN s2 ELSE [s2 EXCEPT !.multi = 0]
            ELSE s1

\* variant: only the first object of the list is reported
ObjectStageOnce(st, sid, fidx, object_list, failAt) ==
    IF st.raised \/ object_list = <<>> THEN st
    ELSE AppendWithEvidence(st, sid, fidx, "OBJECT_DETECTED", "high",
                            "object", Head(object_list), failAt)

\* lines 246-250: "for obj in object_list"
RECURSIVE ObjectStage(_, _, _, _, _)
ObjectStage(st, sid, fidx, object_list, failAt) ==
    IF st.raised \/ object_list = <<>> THEN st
    ELSE ObjectStage(AppendWithEvidence(st, sid, fidx, "OBJECT_DETECTED", "high",
                                        "object", Head(object_list), failAt),
                     sid, fidx, Tail(object_list), failAt)

\* _generate_alerts on counters c = <<gaze, mouth, multi>>: the returned list,
\* the counters it leaves on the analyzer, and whether it raised
GenerateAlerts(c, sid, fidx, face_present, gaze_direction, mouth_moving, multiple_faces, num_faces, object_list, failAt) ==
    LET s0 == [alerts |-> <<>>, gaze |-> c[1], mouth |-> c[2], multi |-> c[3],
               writes |-> 0, raised |-> FALSE]
        s1 == FaceStage(s0, sid, fidx, face_present, failAt)
        s2 == GazeStage(s1, sid, fidx, gaze_direction, failAt)
        s3 == MouthStage(s2, sid, fidx, mouth_moving, failAt)
        s4 == MultiFaceStage(s3, sid, fidx, multiple_faces, num_faces, failAt)
    IN ObjectStage(s4, sid, fidx, object_list, failAt)

\* evidence writes a call makes when none raises
Writes(c, face_present, gaze_direction, mouth_moving, multiple_faces, object_list) ==
    GenerateAlerts(c, 0, 0, face_present, gaze_direction, mouth_moving,
                   multiple_faces, 1, object_list, 0).writes

\* the alert types and frame indices of an alert list, in order
TypesAndFrames(list) == [i \in 1..Len(list) |-> <<list[i].type, list[i].frame_index>>]

CountType(list, type) == Cardinality({i \in 1..Len(list) : list[i].type = type})

(* ------------------------------ __init__ ------------------------------ *)
NoRecord == [verdict |-> "None", audio |-> "None"]

Detectors == {"face", "eyes", "mouth", "multi_face", "objects"}

\* detectors called on every processed frame, and detectors called on a cadence
PerFrame == {"face", "eyes", "mouth"}
Cadenced == {"multi_face", "objects"}

OneOrNone(S) == {{}} \cup {{d} : d \in S}

\* configurations: the detection.*.enabled flags and audio_monitoring.enabled;
\* none, one per-frame detector, one cadenced detector, or one of each
Configs ==
    {[enabled |-> p \cup c, audio |-> a] :
        p \in OneOrNone(PerFrame), c \in OneOrNone(Cadenced), a \in BOOLEAN}

\* line 105: one face until the multi-face detector says otherwise
NoFaces == [is_int |-> TRUE, value |-> 1]

\* lines 84-86 and 101: zeroed counters and no alert
NoRef == [gaze |-> 0, mouth |-> 0, multi |-> 0, alerts |-> <<>>]

NoSignals ==
    [face_present |-> TRUE, gaze_direction |-> "center", mouth_moving |-> FALSE,
     multiple_faces |-> FALSE, num_faces |-> 1, object_list |-> <<>>]

\* lines 84-86 and a caller that has made no call yet
InitAnalyzer ==
    /\ gaze_away_frames = 0
    /\ mouth_moving_frames = 0
    /\ multi_face_frames = 0
    /\ evidence_dirs = {}
    /\ session_logs = {}
    /\ record = NoRecord
    /\ pc = "idle"
    /\ error = "none"
    /\ session_id = 0
    /\ audio_path = FALSE
    /\ num_raw_frames = 0
    /\ opened = FALSE
    /\ cap_open = FALSE
    /\ frame_idx = 0
    /\ processed_idx = 0
    /\ last_faces = 1
    /\ last_multi = FALSE
    /\ last_objects = <<>>
    /\ alerts = <<>>
    /\ audio_summary = "None"
    /\ audio_calls = 0
    /\ overall_score = 0
    /\ sessions = 0
    /\ submitted = <<>>
    /\ emitted = <<>>
    /\ returned = FALSE
    /\ fed = NoSignals
    /\ run = [s \in Signals |-> 0]
    /\ fired = [s \in Signals |-> 0]
    /\ faulted = FALSE
    /\ det_objects = <<>>
    /\ det_faces = 1
    /\ mf_invoked = {}
    /\ ref = NoRef

callVars == <<evidence_dirs, session_logs, record, pc, error, session_id, audio_path,
              num_raw_frames, opened, cap_open, frame_idx, processed_idx,
              last_faces, last_multi, last_objects, alerts, audio_summary,
              audio_calls, overall_score, sessions, submitted,
              det_objects, det_faces, mf_invoked, ref>>

(* ------------- _generate_alerts driven frame by frame ----------------- *)
SignalTrue(s, gaze_direction, mouth_moving, multiple_faces) ==
    CASE s = "gaze" -> gaze_direction # "center"
      [] s = "mouth" -> mouth_moving
      [] s = "multi" -> multiple_faces

\* what a caller of _generate_alerts observes of one call with result r
Observe(r, face_present, gaze_direction, mouth_moving, multiple_faces, num_faces, object_list) ==
    /\ gaze_away_frames' = r.gaze
    /\ mouth_moving_frames' = r.mouth
    /\ multi_face_frames' = r.multi
    /\ emitted' = IF r.raised THEN <<>> ELSE r.alerts
    /\ returned' = ~r.raised
    /\ fed' = [face_present |-> face_present, gaze_direction |-> gaze_direction,
               mouth_moving |-> mouth_moving, multiple_faces |-> multiple_faces,
               num_faces |-> num_faces, object_list |-> object_list]

\* one call of _generate_alerts on the analyzer, any signals
FeedFrame ==
    /\ ~faulted
    /\ \E face_present \in BOOLEAN, gaze_direction \in GazeDirections,
          mouth_moving \in BOOLEAN, multiple_faces \in BOOLEAN,
          object_list \in ObjectLists :
        LET num_faces == IF multiple_faces THEN 2 ELSE 1
            on(s) == SignalTrue(s, gaze_direction, mouth_moving, multiple_faces)
        IN /\ \A s \in Signals : on(s) => run[s] < MaxRuns * Threshold(s)
           /\ \E failAt \in 0..Writes(counters, face_present, gaze_direction, mouth_moving, multiple_faces, object_list) :
              \E r \in {GenerateAlerts(counters, 0, 0, face_present, gaze_direction, mouth_moving, multiple_faces, num_faces, object_list, failAt)} :
                /\ Observe(r, face_present, gaze_direction, mouth_moving, multiple_faces, num_faces, object_list)
                /\ faulted' = r.raised
                /\ run' = [s \in Signals |-> IF on(s) THEN run[s] + 1 ELSE 0]
                /\ fired' = [s \in Signals |->
                               (IF on(s) THEN fired[s] ELSE 0)
                               + CountType(IF r.raised THEN <<>> ELSE r.alerts, AlertType(s))]
                /\ UNCHANGED <<cfg, callVars>>

InitAlerts == InitAnalyzer /\ cfg = [enabled |-> Detectors, audio |-> FALSE]

NextAlerts == FeedFrame

SpecAlerts == InitAlerts /\ [][NextAlerts]_vars

(* ------------------------------ analyze_video ------------------------- *)
Enabled(d) == d \in cfg.enabled

\* what the object detector may return: a list, or something that is no list
ObjectReturns ==
    {[is_list |-> TRUE, value |-> l] : l \in ObjectLists}
        \cup {[is_list |-> FALSE, value |-> <<>>]}

\* what the multi-face detector may return: an int, or something that is no int
MultiFaceReturns ==
    {[is_int |-> TRUE, value |-> n] : n \in 1..MaxFaces}
        \cup {[is_int |-> FALSE, value |-> 0]}

AudioSummaries == {"summary"}

\* overall scores, in hundredths: below the 0.7 threshold and on it
Scores == {65, 70}

\* the overall score the scoring functions may give a session: a session
\* with no alert and no audio summary gets neutral scores, which pass the
\* threshold; any other session may score on either side of it
ScoresFor(list, audio) == IF list = <<>> /\ audio = "None" THEN {SCORE_THRESHOLD} ELSE Scores

CallOver == pc \in {"idle", "done", "raised"}

\* variant: the alert list kept on the analyzer, not made anew by each call
NoLocalsKeepAlerts ==
    /\ frame_idx' = 0
    /\ processed_idx' = 0
    /\ last_faces' = 1
    /\ last_multi' = FALSE
    /\ last_objects' = <<>>
    /\ audio_summary' = "None"
    /\ audio_calls' = 0
    /\ overall_score' = 0
    /\ record' = NoRecord
    /\ submitted' = <<>>
    /\ emitted' = <<>>
    /\ returned' = FALSE
    /\ fed' = NoSignals
    /\ det_objects' = <<>>
    /\ det_faces' = 1
    /\ mf_invoked' = {}
    /\ ref' = NoRef
    /\ UNCHANGED alerts

\* the locals of a call that has not entered its frame loop
NoLocals ==
    /\ frame_idx' = 0
    /\ processed_idx' = 0
    /\ last_faces' = 1
    /\ last_multi' = FALSE
    /\ last_objects' = <<>>
    /\ alerts' = <<>>
    /\ audio_summary' = "None"
    /\ audio_calls' = 0
    /\ overall_score' = 0
    /\ record' = NoRecord
    /\ submitted' = <<>>
    /\ emitted' = <<>>
    /\ returned' = FALSE
    /\ fed' = NoSignals
    /\ det_objects' = <<>>
    /\ det_faces' = 1
    /\ mf_invoked' = {}
    /\ ref' = NoRef

\* lines 91-94: the session id (fresh for every call, as upload_recording's
\* uuid4 and _generate_session_id's timestamp make it) and its evidence directory
StartCall ==
    /\ CallOver
    /\ sessions < MaxSessions
    /\ sessions' = sessions + 1
    /\ session_id' = sessions + 1
    /\ evidence_dirs' = evidence_dirs \cup {sessions + 1}
    /\ NoLocals
    /\ UNCHANGED <<cfg, session_logs, run, fired, faulted>>

\* analyze_video called on the analyzer the caller holds
EnterCall ==
    /\ StartCall
    /\ UNCHANGED counters


\* lines 89-107 with a video that opens
AnalyzeVideo ==
    \E ap \in BOOLEAN :
        /\ EnterCall
        /\ num_raw_frames' = 0
        /\ audio_path' = ap
        /\ opened' = TRUE
        /\ cap_open' = TRUE
        /\ pc' = "loop"
        /\ error' = "none"

\* variant: isOpened() of line 97 not looked at: the first read delivers
\* nothing and the call goes on to its end
OpenFailsUnchecked ==
    \E ap \in BOOLEAN :
        /\ EnterCall
        /\ num_raw_frames' = 0
        /\ audio_path' = ap
        /\ opened' = FALSE
        /\ cap_open' = FALSE
        /\ pc' = "audio"
        /\ error' = "none"

\* lines 89-98 with a video that does not open
OpenFails ==
    \E ap \in BOOLEAN :
        /\ EnterCall
        /\ num_raw_frames' = 0
        /\ audio_path' = ap
        /\ opened' = FALSE
        /\ cap_open' = FALSE
        /\ pc' = "raised"
        /\ error' = "open"

\* line 110-111: cap.read() delivers a frame (a video holds at most MaxFrames)
InLoop == pc = "loop" /\ frame_idx < MaxFrames

\* variant: the stride counted from the second frame
SkippedOffByOne(idx) == (idx + 1) % FRAME_STRIDE # 0

\* line 114
Skipped(idx) == idx % FRAME_STRIDE # 0

\* lines 110-116: a frame the stride drops
SkipFrame ==
    /\ InLoop
    /\ Skipped(frame_idx)
    /\ frame_idx' = frame_idx + 1
    /\ UNCHANGED <<cfg, counters, evidence_dirs, session_logs, record, pc, error,
                   session_id, audio_path, num_raw_frames, opened, cap_open,
                   processed_idx, last_faces, last_multi, last_objects, alerts,
                   audio_summary, audio_calls, overall_score, sessions,
                   submitted, emitted, returned, fed, run, fired, faulted,
                   det_objects, det_faces, mf_invoked, ref>>

\* line 134
RunsObjectDetector(pidx) == Enabled("objects") /\ pidx % OBJ_DETECT_EVERY = 0

\* line 139
RunsMultiFaceDetector(pidx) == Enabled("multi_face") /\ pidx % MF_DETECT_EVERY = 0

\* line 136
ObjectsOf(res) == IF res.is_list THEN res.value ELSE <<>>

\* line 141
FacesOf(mf) == IF mf.is_int THEN mf.value ELSE 1

\* lines 133-136: the object list of a processed frame
HeldObjects(runs, res) == IF runs THEN ObjectsOf(res) ELSE <<>>

\* variant: the count reset on the frames the detector skips
HeldFacesReset(runs, mf, last) == IF runs THEN FacesOf(mf) ELSE 1

\* lines 105 and 139-141: the face count of a processed frame
HeldFaces(runs, mf, last) == IF runs THEN FacesOf(mf) ELSE last

\* lines 106 and 139-142: the multiple-faces flag of a processed frame
HeldMulti(runs, mf, last) == IF runs THEN FacesOf(mf) > 1 ELSE last

\* lines 118-158 up to the return of _generate_alerts; the evidence writes
\* numbered in failures may raise
Frame(failures) ==
    \E face_present \in (IF Enabled("face") THEN BOOLEAN ELSE {TRUE}),
       gaze_dir \in (IF Enabled("eyes") THEN GazeDirections ELSE {"center"}),
       mouth_moving \in (IF Enabled("mouth") THEN BOOLEAN ELSE {FALSE}),
       res \in (IF RunsObjectDetector(processed_idx) THEN ObjectReturns
                ELSE {[is_list |-> FALSE, value |-> <<>>]}),
       mf \in (IF RunsMultiFaceDetector(processed_idx) THEN MultiFaceReturns
               ELSE {NoFaces}) :
      LET objects == HeldObjects(RunsObjectDetector(processed_idx), res)
          faces == HeldFaces(RunsMultiFaceDetector(processed_idx), mf, last_faces)
          multi == HeldMulti(RunsMultiFaceDetector(processed_idx), mf, last_multi)
      IN \E failAt \in failures \cap 0..Writes(counters, face_present, gaze_dir, mouth_moving, multi, objects) :
           \E r \in {GenerateAlerts(counters, session_id, frame_idx, face_present, gaze_dir, mouth_moving, multi, faces, objects, failAt)} :
              /\ Observe(r, face_present, gaze_dir, mouth_moving, multi, faces, objects)
              /\ last_objects' = objects
              /\ last_faces' = faces
              /\ last_multi' = multi
              /\ submitted' = Append(submitted, frame_idx)
              /\ det_objects' = IF RunsObjectDetector(processed_idx) THEN ObjectsOf(res)
                                ELSE det_objects
              /\ det_faces' = IF RunsMultiFaceDetector(processed_idx) THEN FacesOf(mf)
                              ELSE det_faces
              /\ mf_invoked' = IF RunsMultiFaceDetector(processed_idx)
                               THEN mf_invoked \cup {processed_idx} ELSE mf_invoked
              /\ \E q \in {IF r.raised \/ <<ref.gaze, ref.mouth, ref.multi>> = counters THEN r
                           ELSE GenerateAlerts(<<ref.gaze, ref.mouth, ref.multi>>, 0, frame_idx, face_present, gaze_dir, mouth_moving, multi, faces, objects, 0)} :
                    ref' = IF r.raised THEN ref
                           ELSE [gaze |-> q.gaze, mouth |-> q.mouth, multi |-> q.multi,
                                 alerts |-> ref.alerts \o TypesAndFrames(q.alerts)]
              /\ IF r.raised
                 THEN /\ pc' = "raised"
                      /\ error' = "evidence"
                      /\ UNCHANGED <<alerts, processed_idx, frame_idx>>
                 ELSE /\ alerts' = alerts \o r.alerts
                      /\ processed_idx' = processed_idx + 1
                      /\ frame_idx' = frame_idx + 1
                      /\ UNCHANGED <<pc, error>>

frameVars == <<cfg, evidence_dirs, session_logs, record, session_id, audio_path,
               num_raw_frames, opened, cap_open, audio_summary, audio_calls,
               overall_score, sessions, run, fired, faulted>>

\* lines 110-161: a frame the stride keeps
ProcessFrame ==
    /\ InLoop
    /\ ~Skipped(frame_idx)
    /\ Frame({0})
    /\ UNCHANGED frameVars

\* lines 144-158 and 199-202: cv2.imwrite raises inside save_evidence
EvidenceWriteRaises ==
    /\ InLoop
    /\ ~Skipped(frame_idx)
    /\ Frame(1..(3 + MaxObjects + 1))
    /\ UNCHANGED frameVars

\* the detectors line 124-142 call on this frame
Called(pidx) ==
    (cfg.enabled \cap {"face", "eyes", "mouth"})
        \cup (IF RunsObjectDetector(pidx) THEN {"objects"} ELSE {})
        \cup (IF RunsMultiFaceDetector(pidx) THEN {"multi_face"} ELSE {})

\* lines 124-142: one of the detectors called on this frame raises (the
\* multi-face detector is the last one called); nothing catches it
DetectorRaises ==
    /\ InLoop
    /\ ~Skipped(frame_idx)
    /\ \E d \in Called(processed_idx) :
          mf_invoked' = IF d = "multi_face" THEN mf_invoked \cup {processed_idx}
                        ELSE mf_invoked
    /\ pc' = "raised"
    /\ error' = "detector"
    /\ UNCHANGED <<cfg, counters, evidence_dirs, session_logs, record, session_id,
                   audio_path, num_raw_frames, opened, cap_open, frame_idx,
                   processed_idx, last_faces, last_multi, last_objects, alerts,
                   audio_summary, audio_calls, overall_score, sessions,
                   submitted, emitted, returned, fed, run, fired, faulted,
                   det_objects, det_faces, ref>>

\* lines 110-112 and 163: cap.read() delivers nothing more, the source is
\* exhausted after frame_idx raw frames
EndOfVideo ==
    /\ pc = "loop"
    /\ num_raw_frames' = frame_idx
    /\ cap_open' = FALSE
    /\ pc' = "audio"
    /\ UNCHANGED <<cfg, counters, evidence_dirs, session_logs, record, error,
                   session_id, audio_path, opened, frame_idx,
                   processed_idx, last_faces, last_multi, last_objects, alerts,
                   audio_summary, audio_calls, overall_score, sessions,
                   submitted, emitted, returned, fed, run, fired, faulted,
                   det_objects, det_faces, mf_invoked, ref>>

\* variant: the audio step not guarded
WantsAudioAlways == TRUE

\* line 174
WantsAudio == cfg.audio /\ audio_path

audioVars == <<cfg, counters, evidence_dirs, session_logs, record, session_id,
               audio_path, num_raw_frames, opened, cap_open, frame_idx, processed_idx,
               last_faces, last_multi, last_objects, alerts, overall_score,
               sessions, submitted, emitted, returned, fed, run, fired, faulted,
               det_objects, det_faces, mf_invoked, ref>>

\* lines 173-176: the audio analyzer runs on the whole file
AnalyzeAudio ==
    /\ pc = "audio"
    /\ WantsAudio
    /\ \E a \in AudioSummaries : audio_summary' = a
    /\ audio_calls' = audio_calls + 1
    /\ pc' = "save"
    /\ UNCHANGED <<error, audioVars>>

\* lines 175-176: the audio analyzer raises; nothing catches it
AudioRaises ==
    /\ pc = "audio"
    /\ WantsAudio
    /\ audio_calls' = audio_calls + 1
    /\ pc' = "raised"
    /\ error' = "audio"
    /\ UNCHANGED <<audio_summary, audioVars>>

\* lines 173-174: no audio analysis
SkipAudio ==
    /\ pc = "audio"
    /\ ~WantsAudio
    /\ pc' = "save"
    /\ UNCHANGED <<error, audio_summary, audio_calls, audioVars>>

\* variant: the two tests in the other order
VerdictCountFirst(list, score) ==
    IF score < SCORE_THRESHOLD \/ Len(list) > ALERT_COUNT_THRESHOLD THEN "SUSPICIOUS"
    ELSE IF CountType(list, "MULTI_FACE") > 0 \/ CountType(list, "OBJECT_DETECTED") > 0
         THEN "CHEATING"
         ELSE "CLEAN"

\* lines 267-271
Verdict(list, score) ==
    IF CountType(list, "MULTI_FACE") > 0 \/ CountType(list, "OBJECT_DETECTED") > 0
    THEN "CHEATING"
    ELSE IF score < SCORE_THRESHOLD \/ Len(list) > ALERT_COUNT_THRESHOLD
         THEN "SUSPICIOUS"
         ELSE "CLEAN"

\* lines 273-285: the record written under the session id
SessionRecord(list, score, audio) ==
    [verdict |-> Verdict(list, score), audio |-> audio]

\* lines 178-179 and 255-285; the scores come from the scoring functions
SaveSessionLog ==
    /\ pc = "save"
    /\ \E score \in ScoresFor(alerts, audio_summary) :
        /\ overall_score' = score
        /\ record' = SessionRecord(alerts, score, audio_summary)
    /\ session_logs' = session_logs \cup {session_id}
    /\ pc' = "done"
    /\ UNCHANGED <<cfg, counters, evidence_dirs, error, session_id, audio_path,
                   num_raw_frames, opened, cap_open, frame_idx, processed_idx,
                   last_faces, last_multi, last_objects, alerts, audio_summary,
                   audio_calls, sessions, submitted, emitted, returned, fed,
                   run, fired, faulted, det_objects, det_faces, mf_invoked, ref>>

Init == InitAnalyzer /\ cfg \in Configs

Next ==
    \/ AnalyzeVideo
    \/ OpenFails
    \/ SkipFrame
    \/ ProcessFrame
    \/ EvidenceWriteRaises
    \/ DetectorRaises
    \/ EndOfVideo
    \/ AnalyzeAudio
    \/ AudioRaises
    \/ SkipAudio
    \/ SaveSessionLog

Spec == Init /\ [][Next]_vars

(* --------------------------- analyze_recording ------------------------ *)
\* variant: one analyzer kept by the module and used by every call
ConstructShared == UNCHANGED counters

\* line 300 and lines 84-86: the analyzer analyze_recording constructs
Construct ==
    /\ gaze_away_frames' = 0
    /\ mouth_moving_frames' = 0
    /\ multi_face_frames' = 0

\* lines 293-301 with a video that opens; the caller may pass an audio path
\* (upload_recording, app.py lines 35-45, passes a fresh session id and none)
AnalyzeRecording ==
    \E ap \in BOOLEAN :
        /\ StartCall
        /\ Construct
        /\ num_raw_frames' = 0
        /\ audio_path' = ap
        /\ opened' = TRUE
        /\ cap_open' = TRUE
        /\ pc' = "loop"
        /\ error' = "none"

\* lines 293-301 with a video that does not open
AnalyzeRecordingOpenFails ==
    \E ap \in BOOLEAN :
        /\ StartCall
        /\ Construct
        /\ num_raw_frames' = 0
        /\ audio_path' = ap
        /\ opened' = FALSE
        /\ cap_open' = FALSE
        /\ pc' = "raised"
        /\ error' = "open"

\* every call made through analyze_recording, one after the other
NextRecording ==
    \/ AnalyzeRecording
    \/ AnalyzeRecordingOpenFails
    \/ SkipFrame
    \/ ProcessFrame
    \/ EvidenceWriteRaises
    \/ DetectorRaises
    \/ EndOfVideo
    \/ AnalyzeAudio
    \/ AudioRaises
    \/ SkipAudio
    \/ SaveSessionLog

SpecRecording == Init /\ [][NextRecording]_vars

(* ------------------------------- claims ------------------------------- *)
CeilDiv(a, b) == (a + b - 1) \div b

\* the frame loop ran until the source was exhausted
LoopFinished ==
    \/ pc \in {"audio", "save", "done"}
    \/ pc = "raised" /\ error = "audio"

\* C1: on a fresh analyzer fed frame by frame, a debounced signal (gaze away 3,
\* mouth movement 3, multiple faces 5) that has been true for n consecutive
\* frames has emitted n div threshold alerts of its type, one on each frame
\* on which n is a multiple of the threshold and none on any other frame: one
\* alert for a run of exactly threshold frames, on the frame that completes
\* it, and two for a run of 2 * threshold frames.
C1_DebounceFiresPerThreshold ==
    returned =>
        /\ \A s \in Signals :
            LET th == CASE s = "gaze" -> 3 [] s = "mouth" -> 3 [] s = "multi" -> 5
            IN /\ fired[s] = run[s] \div th
               /\ CountType(emitted, AlertType(s)) =
                    (IF run[s] > 0 /\ run[s] % th = 0 THEN 1 ELSE 0)

C1_Witness ==
    /\ returned
    /\ run["gaze"] = 3 /\ fired["gaze"] = 1 /\ CountType(emitted, "GAZE_AWAY") = 1
    /\ run["mouth"] = 6 /\ fired["mouth"] = 2
    /\ run["multi"] = 10 /\ fired["multi"] = 2

\* C2: every _generate_alerts call that returns emits exactly one
\* FACE_MISSING alert if face-presence is false and none otherwise, and
\* exactly one OBJECT_DETECTED alert per item of the object list it was
\* given, on that very frame, whatever the debounce counters hold.
C2_InstantaneousAlerts ==
    returned =>
        /\ CountType(emitted, "FACE_MISSING") = (IF fed.face_present THEN 0 ELSE 1)
        /\ CountType(emitted, "OBJECT_DETECTED") = Len(fed.object_list)

C2_Witness ==
    /\ returned
    /\ ~fed.face_present
    /\ Len(fed.object_list) = 1
    /\ CountType(emitted, "FACE_MISSING") = 1
    /\ CountType(emitted, "OBJECT_DETECTED") = 1
    /\ gaze_away_frames = 2
    /\ multi_face_frames = 4

\* C3: when the frame loop has run through a video of F raw frames, it has
\* submitted exactly ceil(F / S) frames to _generate_alerts, and their raw
\* indices are exactly the multiples of S below F, in increasing order; at
\* every point of the loop the frames submitted so far are the multiples of
\* S among the frames read so far.
C3_StrideSampling ==
    /\ LoopFinished =>
        /\ Len(submitted) = CeilDiv(num_raw_frames, FRAME_STRIDE)
        /\ \A i \in 1..Len(submitted) :
             /\ submitted[i] = (i - 1) * FRAME_STRIDE
             /\ submitted[i] < num_raw_frames
        /\ \A j \in 0..((num_raw_frames - 1) \div FRAME_STRIDE) :
             j * FRAME_STRIDE < num_raw_frames =>
                (j + 1 <= Len(submitted) /\ submitted[j + 1] = j * FRAME_STRIDE)
    /\ pc = "loop" =>
        /\ Len(submitted) = CeilDiv(frame_idx, FRAME_STRIDE)
        /\ \A i \in 1..Len(submitted) : submitted[i] = (i - 1) * FRAME_STRIDE

C3_Witness ==
    /\ pc = "done"
    /\ num_raw_frames = 2 * FRAME_STRIDE + 1
    /\ submitted = <<0, FRAME_STRIDE, 2 * FRAME_STRIDE>>

C5_CountersResetPerSession ==
    (pc = "loop" /\ frame_idx = 0) =>
        (gaze_away_frames = 0 /\ mouth_moving_frames = 0 /\ multi_face_frames = 0)

\* C6: a call whose video source cannot be opened ends with an error to the
\* caller, and no session record exists under its session id.
C6_OpenFailureWritesNoRecord ==
    (sessions > 0 /\ ~opened) =>
        /\ pc = "raised"
        /\ error = "open"
        /\ session_id \notin session_logs
        /\ record = NoRecord

C6_Witness ==
    /\ sessions = 2
    /\ ~opened
    /\ pc = "raised"
    /\ session_logs = {1}

\* C7: a detector that raises on a processed frame does not end the call:
\* no exception of a detector reaches the caller of analyze_video.
C7_DetectorFailureTolerated == ~(pc = "raised" /\ error = "detector")

\* C8: an audio analyzer that fails does not end the call: the audio summary
\* stays null and the session record is still persisted.
C8_AudioFailureTolerated ==
    (audio_calls > 0 /\ audio_summary = "None") =>
        /\ pc # "raised"
        /\ pc = "done" => (session_id \in session_logs /\ record.audio = "None")

\* C9: an evidence write that fails while an alert is emitted does not end
\* the call; the alert is appended and the alerts collected so far are kept.
C9_EvidenceFailureKeepsAlert ==
    (submitted # <<>> /\ ~returned) => (pc # "raised" /\ emitted # <<>>)

\* C10: the audio analyzer is never invoked inside the frame loop and at most
\* once per call; once the loop has finished and the audio step is over it
\* has been invoked exactly once if audio monitoring is enabled and an audio
\* path was supplied and not at all otherwise, and the record is persisted
\* only after that.
C10_AudioOnceAfterLoop ==
    /\ audio_calls <= 1
    /\ pc \in {"loop", "audio"} => audio_calls = 0
    /\ (pc = "raised" /\ error # "audio") => audio_calls = 0
    /\ (pc \in {"save", "done"} \/ (pc = "raised" /\ error = "audio")) =>
          audio_calls = (IF cfg.audio /\ audio_path THEN 1 ELSE 0)
    /\ pc \in {"loop", "audio", "save"} => session_id \notin session_logs

C10_Witness ==
    /\ pc = "save"
    /\ audio_calls = 1
    /\ processed_idx >= 2
    /\ session_id \notin session_logs

C12_AlertsOfThisSession ==
    /\ \A i \in 1..Len(alerts) :
          /\ alerts[i].session_id = session_id
          /\ alerts[i].frame_index <= frame_idx
    /\ \A i \in 1..(Len(alerts) - 1) :
          alerts[i].frame_index <= alerts[i + 1].frame_index

C12_Witness ==
    /\ sessions = 2
    /\ session_logs = {1, 2}
    /\ pc = "done"
    /\ Len(alerts) >= 3
    /\ alerts[1].session_id = 2
    /\ alerts[1].frame_index = alerts[2].frame_index
    /\ alerts[2].frame_index < alerts[Len(alerts)].frame_index

\* C13: within one session no two distinct alerts are given the same
\* evidence path, several OBJECT_DETECTED alerts of one frame included.
C13_EvidencePathsDistinct ==
    \A i \in 1..Len(alerts) : \A j \in 1..Len(alerts) :
        i # j => alerts[i].image_path # alerts[j].image_path

\* C14: with the object detector enabled, on a processed frame whose
\* processed index is not a multiple of 10 the object list handed to
\* _generate_alerts is the list computed on the most recent processed frame
\* on which the object detector ran.
C14_ObjectHoldover ==
    (returned /\ Enabled("objects") /\ (processed_idx - 1) % OBJ_DETECT_EVERY # 0) =>
        fed.object_list = det_objects

\* C15: the multi-face detector is invoked only when it is enabled and only
\* on processed frames whose processed index is a multiple of 4; on every
\* processed frame the face count and the multiple-faces flag handed to
\* _generate_alerts are those computed at the most recent invocation of the
\* call, and 1 and false as long as there has been none.
C15_MultiFaceCadence ==
    /\ \A p \in mf_invoked : Enabled("multi_face") /\ p % MF_DETECT_EVERY = 0
    /\ mf_invoked = {} => det_faces = 1
    /\ returned =>
        /\ fed.num_faces = det_faces
        /\ fed.multiple_faces = (det_faces > 1)

C15_Witness ==
    /\ Enabled("multi_face")
    /\ returned
    /\ processed_idx = 4
    /\ mf_invoked = {0}
    /\ fed.num_faces = 3
    /\ fed.multiple_faces

\* C16: a call whose video source cannot be opened creates no per-session
\* state: afterwards its session has no evidence directory (the session id
\* is new, so it had none before).
C16_OpenFailureCreatesNothing ==
    (sessions > 0 /\ ~opened) => session_id \notin evidence_dirs

\* C17: once analyze_video has opened the video source, the source has been
\* released whenever the call is over or past its frame loop, whether the
\* loop ended on an exhausted source or a detector or evidence write raised.
C17_SourceReleased ==
    (opened /\ pc # "loop") => ~cap_open

\* C18: after every _generate_alerts call, whatever frames and sessions came
\* before, a counter whose signal was false on the frame is zero, a counter
\* whose alert fired on the frame is zero, the gaze-away and mouth-moving
\* counters are in 0..2 and the multi-face counter is in 0..4.
C18_CountersBounded ==
    /\ gaze_away_frames \in 0..(GAZE_THRESHOLD - 1)
    /\ mouth_moving_frames \in 0..(MOUTH_THRESHOLD - 1)
    /\ multi_face_frames \in 0..(MULTI_FACE_THRESHOLD - 1)
    /\ submitted # <<>> =>
        /\ fed.gaze_direction = "center" => gaze_away_frames = 0
        /\ ~fed.mouth_moving => mouth_moving_frames = 0
        /\ ~fed.multiple_faces => multi_face_frames = 0
        /\ CountType(emitted, "GAZE_AWAY") > 0 => gaze_away_frames = 0
        /\ CountType(emitted, "MOUTH_MOVEMENT") > 0 => mouth_moving_frames = 0
        /\ CountType(emitted, "MULTI_FACE") > 0 => multi_face_frames = 0

\* C19: every MULTI_FACE alert carries a num_faces greater than 1, the face
\* count computed at the most recent invocation of the multi-face detector,
\* an invocation made on this or one of the 4 processed frames before it; no
\* MULTI_FACE alert is emitted when the multi-face detector is disabled or
\* its most recent result was 1 or no integer.
C19_MultiFaceDetails ==
    /\ ~Enabled("multi_face") => CountType(alerts, "MULTI_FACE") = 0
    /\ \A i \in 1..Len(alerts) :
          alerts[i].type = "MULTI_FACE" =>
            \E n \in 2..MaxFaces : alerts[i].details = {<<"num_faces", n>>}
    /\ returned =>
          \A i \in 1..Len(emitted) :
            emitted[i].type = "MULTI_FACE" =>
              /\ Enabled("multi_face")
              /\ det_faces > 1
              /\ emitted[i].details = {<<"num_faces", det_faces>>}
              /\ \E p \in mf_invoked :
                    /\ p <= processed_idx - 1
                    /\ processed_idx - 1 - p < MULTI_FACE_THRESHOLD

C19_Witness ==
    /\ returned
    /\ processed_idx = 5
    /\ mf_invoked = {0, 4}
    /\ det_faces = 3
    /\ CountType(emitted, "MULTI_FACE") = 1
    /\ CountType(alerts, "MULTI_FACE") = 1

====
